---- MODULE Spec2Model ----
(***************************************************************************)
(* Model of src/app.py: a Flask portfolio manager with a Flask-Login       *)
(* session gate, a bootedtrap block seeding one admin account, project      *)
(* create / edit / delete handlers with an optional Supabase image upload, *)
(* and two public read handlers (the page and the JSON listing).           *)
(***************************************************************************)
EXTENDS Integers, Sequences, FiniteSets, TLC

\* ------------------------------------------------------------------ bounds
MaxProjects == 2      \* rows the project id sequence may hand out
MaxAuthProjects == 1  \* the same, in the specification of the login gate
MaxTags == 2          \* tags in one tech_stack selection (tag pipeline)
MaxTagLen == 2        \* characters in one tag (tag pipeline)

\* --------------------------------------------------------- configuration
ADMIN_EMAIL == "admin@site"
ADMIN_PASSWORD == "pw-admin"
OtherEmail == "bob@site"
OtherPassword == "pw-bob"
Emails == {ADMIN_EMAIL, OtherEmail}
Passwords == {ADMIN_PASSWORD, OtherPassword}
Clients == {"c1", "c2"}
Methods == {"GET", "POST"}
Salts == {"s1"}
Times == {1}

\* ------------------------------------------------------------- variables
VARIABLES
  users,         \* Credential Store: rows of class User
  projects,      \* Project Store: id -> row of class Project
  nextId,        \* the project table's id sequence
  session,       \* client -> user id kept in its signed cookie, 0 if none
  supabase,      \* whether the module-level storage client was created
  bucket,        \* paths held by the storage bucket
  booted,        \* whether the module-level block has run
  req,           \* the request handled by the last step
  resp,          \* the response given by the last step
  selected_tech, \* tag pipeline: the submitted tag list
  tech_string,   \* tag pipeline: the stored, joined string
  stack,         \* tag pipeline: the list served by the JSON view
  tpc            \* tag pipeline: position

appVars == <<users, projects, nextId, session, supabase, bucket, booted, req, resp>>
tagVars == <<selected_tech, tech_string, stack, tpc>>
vars == <<users, projects, nextId, session, supabase, bucket, booted, req, resp,
          selected_tech, tech_string, stack, tpc>>

\* ------------------------------------------------------ password hashing
generate_password_hash(password, salt) ==
  [method |-> "pbkdf2:sha256", salt |-> salt, digest |-> <<salt, password>>]

check_password_hash(pwhash, password) ==
  pwhash.digest = <<pwhash.salt, password>>

\* ------------------------------------------------------ credential store
User(id, email, pwhash, is_admin) ==
  [id |-> id, email |-> email, password |-> pwhash, is_admin |-> is_admin]

\* User.query.filter_by(email=email).first(): the set of matching rows,
\* at most one because the column is unique
filter_by_email(rows, email) == {u \in rows : u.email = email}

\* load_user: the row with that primary key, if any
load_user(rows, user_id) == {u \in rows : u.id = user_id}

NextUserId(rows) ==
  IF rows = {} THEN 1
  ELSE 1 + (CHOOSE m \in {u.id : u \in rows} : \A u \in rows : u.id <= m)

\* a gate that lets every request through
NoLoginRequired(c) == TRUE

\* current_user.is_authenticated for the request of client c
is_authenticated(c) == session[c] # 0 /\ load_user(users, session[c]) # {}

\* credential stores the process may find at its first start
InitialStores ==
  {[i \in 1..0 |-> 0]}
  \cup {<<r>> : r \in {[email |-> e, is_admin |-> a] : e \in Emails, a \in BOOLEAN}}
  \cup {<<r1, r2>> : r1 \in {[email |-> ADMIN_EMAIL, is_admin |-> a] : a \in BOOLEAN},
                     r2 \in {[email |-> OtherEmail, is_admin |-> a] : a \in BOOLEAN}}

PasswordOf(email) == IF email = ADMIN_EMAIL THEN ADMIN_PASSWORD ELSE OtherPassword

StoreRows(s) ==
  {User(i, s[i].email, generate_password_hash(PasswordOf(s[i].email), "s1"),
        s[i].is_admin) : i \in 1..Len(s)}

\* ------------------------------------------------------------- requests
NoFields == [title |-> "", description |-> "", link |-> ""]
NoFile == [present |-> FALSE, filename |-> ""]

Request(op, method, c) ==
  [op |-> op, method |-> method, client |-> c, user |-> session[c],
   id |-> 0, email |-> "", password |-> "",
   fields |-> NoFields, tech |-> <<>>, file |-> NoFile,
   upload |-> "skipped", t |-> 0]

Response(status, to, flash, body) ==
  [status |-> status, to |-> to, flash |-> flash, body |-> body]

\* login_manager.unauthorized() with login_view = 'home'
Unauthorized == Response(302, "home", "Please log in to access this page.", <<>>)

NotFound == Response(404, "", "", <<>>)

\* ------------------------------------------------------------ tech_stack
Comma == ","
Go == <<"G", "o">>
Rust == <<"R", "u", "s", "t">>

\* ",".join(selected_tech)
RECURSIVE join(_)
join(tags) ==
  IF Len(tags) = 0 THEN <<>>
  ELSE IF Len(tags) = 1 THEN tags[1]
  ELSE tags[1] \o <<Comma>> \o join(Tail(tags))

\* str.split(','): always at least one piece
RECURSIVE split(_)
split(s) ==
  IF \A i \in 1..Len(s) : s[i] # Comma THEN <<s>>
  ELSE LET k == CHOOSE i \in 1..Len(s) :
                  s[i] = Comma /\ \A j \in 1..(i - 1) : s[j] # Comma
       IN <<SubSeq(s, 1, k - 1)>> \o split(SubSeq(s, k + 1, Len(s)))

\* a split without the guard for the empty string
StackOfUnguarded(tech_stack) == split(tech_stack)

\* p.tech_stack.split(',') if p.tech_stack else []
StackOf(tech_stack) == IF tech_stack # <<>> THEN split(tech_stack) ELSE <<>>

\* --------------------------------------------------------- image upload
Placeholder ==
  [base |-> "https://via.placeholder.com/800x600?text=No+Image", t |-> 0, name |-> ""]

Filenames == {"", "a.png", "../a.png"}

\* werkzeug's secure_filename on the file names above: path separators and
\* leading dots are dropped
secure_filename(filename) ==
  CASE filename = "a.png" -> "a.png"
    [] filename = "../a.png" -> "a.png"
    [] OTHER -> ""

\* f"projects/{int(time.time())}_{filename}"
file_path(t, filename) == [t |-> t, name |-> secure_filename(filename)]

\* supabase.storage.from_(SUPABASE_BUCKET).get_public_url(file_path)
get_public_url(path) == [base |-> "public/projects", t |-> path.t, name |-> path.name]

Files ==
  {NoFile,
   [present |-> TRUE, filename |-> ""],
   [present |-> TRUE, filename |-> "a.png"],
   [present |-> TRUE, filename |-> "../a.png"]}

\* 'image' in request.files, file.filename != '' and supabase
UploadAttempted(file) == file.present /\ file.filename # "" /\ supabase

\* what the try block can do: "ok" when upload and get_public_url return,
\* "fail" when either raises, "skipped" when the block is not entered
UploadOutcomes(file) == IF UploadAttempted(file) THEN {"ok", "fail"} ELSE {"skipped"}

\* an upload block that falls back to the placeholder whatever the default
ImageAfterReset(file, outcome, t, default) ==
  IF outcome = "ok" THEN get_public_url(file_path(t, file.filename)) ELSE Placeholder

\* the image reference left by the upload block, starting from a default
ImageAfter(file, outcome, t, default) ==
  IF outcome = "ok" THEN get_public_url(file_path(t, file.filename)) ELSE default

BucketAfter(file, outcome, t) ==
  IF outcome = "ok" THEN bucket \cup {file_path(t, file.filename)} ELSE bucket

\* -------------------------------------------------------- project store
SomeFields == [title |-> "X", description |-> "d", link |-> "l"]

\* the forms a client submits: the text fields and the tech_stack selection
Forms == {[fields |-> NoFields, tech |-> <<>>],
          [fields |-> SomeFields, tech |-> <<Go, Rust>>]}

Project(id, fields, tech_stack, image_filename) ==
  [id |-> id, title |-> fields.title, description |-> fields.description,
   tech_stack |-> tech_stack, link |-> fields.link,
   image_filename |-> image_filename]

\* an ascending order_by
RECURSIVE AscIds(_)
AscIds(ids) ==
  IF ids = {} THEN <<>>
  ELSE LET m == CHOOSE x \in ids : \A y \in ids : x <= y
       IN <<m>> \o AscIds(ids \ {m})

RECURSIVE DescIds(_)
DescIds(ids) ==
  IF ids = {} THEN <<>>
  ELSE LET m == CHOOSE x \in ids : \A y \in ids : y <= x
       IN <<m>> \o DescIds(ids \ {m})

\* Project.query.order_by(Project.id.desc()).all()
OrderByIdDesc(store) ==
  LET ids == DescIds(DOMAIN store) IN [i \in 1..Len(ids) |-> store[ids[i]]]

\* every order in which the rows of an unordered query can come back
Orderings(ids) ==
  {s \in [1..Cardinality(ids) -> ids] : \A i, j \in 1..Cardinality(ids) : i # j => s[i] # s[j]}

\* one element of the JSON array of get_projects
ProjectView(p) ==
  [title |-> p.title, description |-> p.description,
   tech_stack |-> StackOf(p.tech_stack), link |-> p.link,
   image_url |-> p.image_filename]

\* Project.query.all() in row order `order`, mapped to the JSON array
QueryAllViews(store, order) == [i \in 1..Len(order) |-> ProjectView(store[order[i]])]

Insert(store, row) ==
  [i \in DOMAIN store \cup {row.id} |-> IF i = row.id THEN row ELSE store[i]]

\* a delete that is never committed
RemoveNothing(store, id) == store

Remove(store, id) == [i \in DOMAIN store \ {id} |-> store[i]]

\* ------------------------------------------------------------------ Init
NoRequest ==
  [op |-> "none", method |-> "", client |-> "", user |-> 0,
   id |-> 0, email |-> "", password |-> "",
   fields |-> NoFields, tech |-> <<>>, file |-> NoFile,
   upload |-> "skipped", t |-> 0]

NoResponse == Response(0, "", "", <<>>)

TagIdle ==
  /\ selected_tech = <<>>
  /\ tech_string = <<>>
  /\ stack = <<>>
  /\ tpc = "idle"

FreshApp ==
  /\ projects = <<>>
  /\ nextId = 1
  /\ session = [c \in Clients |-> 0]
  /\ supabase = FALSE
  /\ bucket = {}
  /\ booted = FALSE
  /\ req = NoRequest
  /\ resp = NoResponse

\* first start on a credential store holding one non-admin row
Init ==
  /\ users = StoreRows(<<[email |-> OtherEmail, is_admin |-> FALSE]>>)
  /\ FreshApp
  /\ TagIdle

\* first start on any of the credential stores
AuthInit ==
  /\ users \in {StoreRows(s) : s \in InitialStores}
  /\ FreshApp
  /\ TagIdle

\* ------------------------------------------------------------- bootstrap
\* module level: create the storage client, create_all, seed the admin row
Bootstrap ==
  /\ booted' = TRUE
  /\ supabase' \in BOOLEAN
  /\ IF filter_by_email(users, ADMIN_EMAIL) = {}
     THEN \E salt \in Salts :
            users' = users \cup
              {User(NextUserId(users), ADMIN_EMAIL,
                    generate_password_hash(ADMIN_PASSWORD, salt), TRUE)}
     ELSE users' = users
  /\ req' = [NoRequest EXCEPT !.op = "bootstrap"]
  /\ resp' = NoResponse
  /\ UNCHANGED <<projects, nextId, session, bucket>>
  /\ UNCHANGED tagVars

\* ------------------------------------------------------------ admin_login
\* a login that forgets the password comparison
LoginOutcomeNoPasswordCheck(email, password) ==
  LET found == filter_by_email(users, email) IN
  IF found # {}
  THEN IF \A u \in found : u.is_admin THEN "ok" ELSE "denied"
  ELSE "invalid"

\* a login that forgets the is_admin test
LoginOutcomeNoAdminCheck(email, password) ==
  LET found == filter_by_email(users, email) IN
  IF found # {} /\ \A u \in found : check_password_hash(u.password, password)
  THEN "ok"
  ELSE "invalid"

LoginOutcome(email, password) ==
  LET found == filter_by_email(users, email) IN
  IF found # {} /\ \A u \in found : check_password_hash(u.password, password)
  THEN IF \A u \in found : u.is_admin THEN "ok" ELSE "denied"
  ELSE "invalid"

admin_login(c, method, email, password) ==
  /\ booted
  /\ req' = [Request("admin_login", method, c) EXCEPT
               !.email = IF method = "POST" THEN email ELSE "",
               !.password = IF method = "POST" THEN password ELSE ""]
  /\ IF method = "POST"
     THEN LET outcome == LoginOutcome(email, password) IN
          IF outcome = "ok"
          THEN /\ session' = [session EXCEPT ![c] =
                               (CHOOSE u \in filter_by_email(users, email) : TRUE).id]
               /\ resp' = Response(302, "admin_dashboard", "", <<>>)
          ELSE /\ session' = session
               /\ resp' = Response(200, "admin_login.html",
                                   IF outcome = "denied" THEN "Access denied."
                                   ELSE "Invalid credentials.", <<>>)
     ELSE /\ session' = session
          /\ resp' = Response(200, "admin_login.html", "", <<>>)
  /\ UNCHANGED <<users, projects, nextId, supabase, bucket, booted>>
  /\ UNCHANGED tagVars

\* ----------------------------------------------------------------- logout
logout(c) ==
  /\ booted
  /\ req' = Request("logout", "GET", c)
  /\ IF is_authenticated(c)
     THEN /\ session' = [session EXCEPT ![c] = 0]
          /\ resp' = Response(302, "home", "", <<>>)
     ELSE /\ session' = session
          /\ resp' = Unauthorized
  /\ UNCHANGED <<users, projects, nextId, supabase, bucket, booted>>
  /\ UNCHANGED tagVars

\* -------------------------------------------------------- admin_dashboard
admin_dashboard(c, method, form, file, outcome, t) ==
  /\ booted
  /\ IF ~is_authenticated(c)
     THEN /\ req' = Request("admin_dashboard", method, c)
          /\ resp' = Unauthorized
          /\ UNCHANGED <<projects, nextId, bucket>>
     ELSE IF method = "POST"
     THEN /\ outcome \in UploadOutcomes(file)
          /\ req' = [Request("admin_dashboard", method, c) EXCEPT
                      !.id = nextId, !.fields = form.fields, !.tech = form.tech,
                      !.file = file, !.upload = outcome, !.t = t]
          /\ projects' = Insert(projects,
                 Project(nextId, form.fields, join(form.tech),
                         ImageAfter(file, outcome, t, Placeholder)))
          /\ nextId' = nextId + 1
          /\ bucket' = BucketAfter(file, outcome, t)
          /\ resp' = Response(200, "admin_dashboard.html", "", OrderByIdDesc(projects'))
     ELSE /\ req' = Request("admin_dashboard", method, c)
          /\ resp' = Response(200, "admin_dashboard.html", "", OrderByIdDesc(projects))
          /\ UNCHANGED <<projects, nextId, bucket>>
  /\ UNCHANGED <<users, session, supabase, booted>>
  /\ UNCHANGED tagVars

\* ----------------------------------------------------------- edit_project
\* an edit that creates the row it does not find
edit_upsert(c, id, form, file) ==
  /\ req' = [Request("edit_project", "POST", c) EXCEPT
              !.id = id, !.fields = form.fields, !.tech = form.tech,
              !.file = file]
  /\ resp' = Response(302, "admin_dashboard", "", <<>>)
  /\ projects' = Insert(projects, Project(id, form.fields, join(form.tech), Placeholder))
  /\ UNCHANGED bucket

\* Project.query.get_or_404(id) finding no row: the handler aborts with 404
edit_missing(c, id, form, file) ==
  /\ req' = [Request("edit_project", "POST", c) EXCEPT
              !.id = id, !.fields = form.fields, !.tech = form.tech,
              !.file = file]
  /\ resp' = NotFound
  /\ UNCHANGED <<projects, bucket>>

edit_project(c, id, form, file, outcome, t) ==
  /\ booted
  /\ IF ~is_authenticated(c)
     THEN /\ req' = [Request("edit_project", "POST", c) EXCEPT !.id = id]
          /\ resp' = Unauthorized
          /\ UNCHANGED <<projects, bucket>>
     ELSE IF id \notin DOMAIN projects
     THEN edit_missing(c, id, form, file)
     ELSE /\ outcome \in UploadOutcomes(file)
          /\ req' = [Request("edit_project", "POST", c) EXCEPT
                      !.id = id, !.fields = form.fields, !.tech = form.tech,
                      !.file = file, !.upload = outcome, !.t = t]
          /\ projects' = Insert(projects,
                 Project(id, form.fields, join(form.tech),
                         ImageAfter(file, outcome, t, projects[id].image_filename)))
          /\ bucket' = BucketAfter(file, outcome, t)
          /\ resp' = Response(302, "admin_dashboard", "", <<>>)
  /\ UNCHANGED <<users, nextId, session, supabase, booted>>
  /\ UNCHANGED tagVars

\* --------------------------------------------------------- delete_project
delete_project(c, id) ==
  /\ booted
  /\ req' = [Request("delete_project", "POST", c) EXCEPT !.id = id]
  /\ IF ~is_authenticated(c)
     THEN /\ resp' = Unauthorized
          /\ UNCHANGED projects
     ELSE IF id \notin DOMAIN projects
     THEN /\ resp' = NotFound
          /\ UNCHANGED projects
     ELSE /\ projects' = Remove(projects, id)
          /\ resp' = Response(302, "admin_dashboard", "", <<>>)
  /\ UNCHANGED <<users, nextId, session, supabase, bucket, booted>>
  /\ UNCHANGED tagVars

\* ------------------------------------------------------------------ home
home(c) ==
  /\ booted
  /\ req' = Request("home", "GET", c)
  /\ resp' = Response(200, "index.html", "", OrderByIdDesc(projects))
  /\ UNCHANGED <<users, projects, nextId, session, supabase, bucket, booted>>
  /\ UNCHANGED tagVars

\* ---------------------------------------------------------- get_projects
get_projects(c, order) ==
  /\ booted
  /\ order \in Orderings(DOMAIN projects)
  /\ req' = Request("get_projects", "GET", c)
  /\ resp' = Response(200, "json", "", QueryAllViews(projects, order))
  /\ UNCHANGED <<users, projects, nextId, session, supabase, bucket, booted>>
  /\ UNCHANGED tagVars

\* ------------------------------------------------------------------ Next
Outcomes == {"ok", "fail", "skipped"}
LoginEmails == Emails \cup {"nobody@site"}

\* the request handlers, for forms and files drawn from the given sets and
\* a project id sequence that stops at cap
Login ==
  \E c \in Clients, m \in Methods, e \in LoginEmails, p \in Passwords :
    admin_login(c, m, e, p)

Logout == \E c \in Clients : logout(c)

Dashboard(forms, files, cap) ==
  \E c \in Clients, m \in Methods, form \in forms, file \in files,
     o \in Outcomes, t \in Times :
    /\ (m = "POST" /\ is_authenticated(c)) => nextId <= cap
    /\ admin_dashboard(c, m, form, file, o, t)

Edit(forms, files, cap) ==
  \E c \in Clients, id \in 1..cap, form \in forms, file \in files,
     o \in Outcomes, t \in Times :
    edit_project(c, id, form, file, o, t)

Delete(cap) == \E c \in Clients, id \in 1..cap : delete_project(c, id)

Home == \E c \in Clients : home(c)

GetProjects ==
  \E c \in Clients, order \in Orderings(DOMAIN projects) : get_projects(c, order)

Next ==
  \/ Bootstrap
  \/ Login
  \/ Logout
  \/ Dashboard(Forms, Files, MaxProjects)
  \/ Edit(Forms, Files, MaxProjects)
  \/ Delete(MaxProjects)
  \/ Home
  \/ GetProjects

Spec == Init /\ [][Next]_vars

\* the login gate on every credential store, with one form and one file
AuthForms == {[fields |-> SomeFields, tech |-> <<Go, Rust>>]}
AuthFiles == {NoFile}

AuthNext ==
  \/ Bootstrap
  \/ Login
  \/ Logout
  \/ Dashboard(AuthForms, AuthFiles, MaxAuthProjects)
  \/ Edit(AuthForms, AuthFiles, MaxAuthProjects)
  \/ Delete(MaxAuthProjects)
  \/ Home
  \/ GetProjects

AuthSpec == AuthInit /\ [][AuthNext]_vars

\* ----------------------------------------------------------- tag pipeline
\* The path of one tech_stack selection through the code: the form's list
\* is joined by admin_dashboard / edit_project, stored, and split again by
\* get_projects.
Alphabet == {"a", Comma}

SeqsUpTo(S, n) == UNION {[1..k -> S] : k \in 0..n}

Tags == SeqsUpTo(Alphabet, MaxTagLen)

TagLists == SeqsUpTo(Tags, MaxTags) \cup {<<Go, Rust>>}

TagInit ==
  /\ users = {}
  /\ FreshApp
  /\ selected_tech \in TagLists
  /\ tech_string = <<>>
  /\ stack = <<>>
  /\ tpc = "form"

\* tech_string = ",".join(selected_tech) in admin_dashboard
SubmitTech ==
  /\ tpc = "form"
  /\ tech_string' = join(selected_tech)
  /\ tpc' = "stored"
  /\ UNCHANGED <<selected_tech, stack>>
  /\ UNCHANGED appVars

\* stack = p.tech_stack.split(',') if p.tech_stack else [] in get_projects
ServeTech ==
  /\ tpc = "stored"
  /\ stack' = StackOf(tech_string)
  /\ tpc' = "served"
  /\ UNCHANGED <<selected_tech, tech_string>>
  /\ UNCHANGED appVars

\* project.tech_stack = ",".join(selected_tech) in edit_project
EditTech ==
  /\ tpc = "served"
  /\ \E tags \in TagLists :
       /\ selected_tech' = tags
       /\ tech_string' = join(tags)
  /\ tpc' = "stored"
  /\ UNCHANGED stack
  /\ UNCHANGED appVars

TagNext == SubmitTech \/ ServeTech \/ EditTech

TagSpec == TagInit /\ [][TagNext]_vars

\* ================================================================= claims
\* the session cookie of client c names a stored user
ValidSession(c) == \E u \in users : u.id = session[c]

\* the session cookie of client c names a stored user with is_admin set
AdminSession(c) == \E u \in users : u.id = session[c] /\ u.is_admin

IsMutation(r) ==
  \/ r.op = "admin_dashboard" /\ r.method = "POST"
  \/ r.op = "edit_project"
  \/ r.op = "delete_project"

RedirectTo(r, endpoint) == r.status = 302 /\ r.to = endpoint

Gated(endpoint) ==
  /\ projects' # projects => IsMutation(req') /\ AdminSession(req'.client)
  /\ (IsMutation(req') /\ ~ValidSession(req'.client)) =>
        /\ projects' = projects
        /\ RedirectTo(resp', endpoint)

Matching(r) ==
  {u \in users : u.email = r.email /\ check_password_hash(u.password, r.password)}

IsLoginPost(r) == r.op = "admin_login" /\ r.method = "POST"

LoginSucceeded ==
  /\ RedirectTo(resp, "admin_dashboard")
  /\ ValidSession(req.client)
  /\ \E u \in Matching(req) : session[req.client] = u.id

LoginRejected(flash) ==
  /\ resp.status = 200
  /\ resp.flash = flash
  /\ session[req.client] = req.user

\* C2 as stated: a login with valid admin credentials leaves the client with
\* a session that passes the login_required gate; a login with any other
\* credential pair is rejected with "Invalid credentials." and leaves the
\* client's session as it was.
C2_AsStated ==
  IsLoginPost(req) =>
    IF \E u \in Matching(req) : u.is_admin
    THEN LoginSucceeded
    ELSE LoginRejected("Invalid credentials.")

\* C2 amended: a login with valid admin credentials leaves the client with a
\* session that passes the login_required gate; any other credential pair is
\* rejected without a session being established, with "Access denied." when
\* it is the correct password of a non-admin user and with "Invalid
\* credentials." otherwise.
C2_Login ==
  IsLoginPost(req) =>
    IF \E u \in Matching(req) : u.is_admin
    THEN LoginSucceeded
    ELSE IF Matching(req) # {}
    THEN LoginRejected("Access denied.")
    ELSE LoginRejected("Invalid credentials.")

C2_Witness ==
  /\ IsLoginPost(req)
  /\ \E u \in Matching(req) : u.is_admin
  /\ req.user = 0
  /\ session[req.client] # 0

\* C3: a login with the email and the correct password of a non-admin user
\* is answered with "Access denied." and leaves the client's session as it
\* was, so a client without a session still fails the login_required gate.
C3_NonAdminDenied ==
  (IsLoginPost(req) /\ \E u \in Matching(req) : ~u.is_admin) =>
    /\ LoginRejected("Access denied.")
    /\ req.user = 0 => ~ValidSession(req.client)

C3_Witness ==
  /\ IsLoginPost(req)
  /\ \E u \in Matching(req) : ~u.is_admin
  /\ req.user = 0
  /\ resp.flash = "Access denied."
  /\ \E u \in users : u.is_admin

Created(r, q) == r.op = "admin_dashboard" /\ r.method = "POST" /\ q.status = 200

\* C4: the listing answered by a create has the new project first, is in
\* strictly descending id order and holds exactly the stored rows.
C4_NewFirst ==
  Created(req, resp) =>
    /\ Len(resp.body) = Cardinality(DOMAIN projects)
    /\ resp.body[1].id = req.id
    /\ resp.body[1].title = req.fields.title
    /\ \A i \in 1..Len(resp.body) :
         /\ resp.body[i].id \in DOMAIN projects
         /\ resp.body[i] = projects[resp.body[i].id]
    /\ \A i, j \in 1..Len(resp.body) : i < j => resp.body[i].id > resp.body[j].id

C4_Witness ==
  /\ Created(req, resp)
  /\ Len(resp.body) >= 2
  /\ resp.body[1].id = req.id

\* the rows of a store in descending id order, as the JSON view shows them
DescendingViews(store) ==
  LET rows == OrderByIdDesc(store) IN [i \in 1..Len(rows) |-> ProjectView(rows[i])]

\* C5: the JSON array of /api/projects and the public page both list all
\* projects in descending id order.
C5_PublicOrder ==
  /\ req.op = "get_projects" => resp.body = DescendingViews(projects)
  /\ req.op = "home" => resp.body = OrderByIdDesc(projects)

Deleted(r, q) == r.op = "delete_project" /\ RedirectTo(q, "admin_dashboard")

DeleteSteps ==
  /\ (req'.op = "delete_project" /\ ValidSession(req'.client)
        /\ req'.id \in DOMAIN projects) =>
        /\ Deleted(req', resp')
        /\ DOMAIN projects' = DOMAIN projects \ {req'.id}
        /\ \A j \in DOMAIN projects' : projects'[j] = projects[j]
  /\ (Deleted(req, resp) /\ req'.op = "admin_dashboard" /\ resp'.status = 200) =>
        /\ \A i \in 1..Len(resp'.body) : resp'.body[i].id # req.id
        /\ \A j \in DOMAIN projects :
             \E i \in 1..Len(resp'.body) : resp'.body[i] = projects[j]
  /\ (Deleted(req, resp) /\ req'.op = "delete_project" /\ req'.id = req.id
        /\ ValidSession(req'.client)) =>
        /\ resp' = NotFound
        /\ projects' = projects

\* C6: a delete of a stored id by a client with a session removes that row
\* and leaves every other row as it was, the admin listing asked for next
\* does not show the id and shows every remaining row, and a second delete
\* of the id right after is answered 404 and changes nothing.
C6_Delete == [][DeleteSteps]_vars

C6_Witness ==
  /\ req.op = "delete_project"
  /\ req.user # 0
  /\ resp = NotFound
  /\ req.id < nextId
  /\ projects # <<>>

\* C7: an edit by a client with a session of an id with no row is answered
\* 404 and leaves the Project Store as it was, whatever the form and file.
C7_EditMissing ==
  [][(req'.op = "edit_project" /\ ValidSession(req'.client)
        /\ req'.id \notin DOMAIN projects) =>
       /\ resp' = NotFound
       /\ projects' = projects]_vars

C7_Witness ==
  /\ req.op = "edit_project"
  /\ req.user # 0
  /\ resp = NotFound
  /\ req.file.filename = "a.png"
  /\ req.fields = SomeFields
  /\ projects # <<>>

Edited(r, q) == r.op = "edit_project" /\ RedirectTo(q, "admin_dashboard")

ImageSteps ==
  /\ \A id \in DOMAIN projects' :
       LET img == projects'[id].image_filename IN
       /\ img.base # ""
       /\ img = Placeholder \/ \E path \in bucket' : img = get_public_url(path)
  /\ (Created(req', resp') /\ req'.upload # "ok") =>
        /\ req'.id \in DOMAIN projects' \ DOMAIN projects
        /\ projects'[req'.id].image_filename = Placeholder
  /\ (Edited(req', resp') /\ req'.upload # "ok") =>
        /\ projects'[req'.id].image_filename = projects[req'.id].image_filename
        /\ projects'[req'.id].title = req'.fields.title
        /\ projects'[req'.id].description = req'.fields.description
        /\ projects'[req'.id].link = req'.fields.link
        /\ StackOf(projects'[req'.id].tech_stack) = req'.tech

SeedSteps ==
  req'.op = "bootstrap" =>
    /\ (~booted /\ \A u \in users : ~u.is_admin) =>
          /\ Cardinality({u \in users' : u.is_admin}) = 1
          /\ \A u \in users' : u.is_admin => u.email = ADMIN_EMAIL
    /\ booted => users' = users

\* C9: a first bootstrap on a store without an is_admin row leaves exactly
\* one is_admin row, with the configured email; a later bootstrap adds no
\* row.
C9_Seed == [][SeedSteps]_vars

NoComma(tags) == \A i \in 1..Len(tags) : \A k \in 1..Len(tags[i]) : tags[i][k] # Comma

GoRust == <<"G", "o", ",", "R", "u", "s", "t">>

Examples ==
  /\ tech_string = <<>> => stack = <<>>
  /\ tech_string = GoRust => stack = <<Go, Rust>>

\* C10 as stated: the empty stored string is served as the empty list,
\* "Go,Rust" as ["Go","Rust"], and every tag list without ',' in a tag is
\* served as it was submitted.
C10_AsStated ==
  tpc = "served" =>
    /\ Examples
    /\ NoComma(selected_tech) => stack = selected_tech

\* C10 amended: the empty stored string is served as the empty list,
\* "Go,Rust" as ["Go","Rust"], and every tag list without ',' in a tag is
\* served as it was submitted, except the list holding only the empty tag,
\* which is served as the empty list.
C10_RoundTrip ==
  tpc = "served" =>
    /\ Examples
    /\ NoComma(selected_tech) =>
         stack = IF selected_tech = <<<<>>>> THEN <<>> ELSE selected_tech

C10_Witness ==
  /\ tpc = "served"
  /\ Len(selected_tech) = 2
  /\ selected_tech[1] = <<>>
  /\ NoComma(selected_tech)
  /\ stack = selected_tech

====
